---------------------------- MODULE Spec2Model ----------------------------
(***************************************************************************)
(* The live voice-interview session controller of                          *)
(* frontend/components/voice/voice-interview.tsx (the VoiceInterview React *)
(* component), as a state machine.                                         *)
(*                                                                         *)
(* React state (useState) is the record ui; refs (useRef) are roomRef,     *)
(* completingRef and farewellTimerRef.  The JavaScript run-time is single  *)
(* threaded: every handler runs to its next await without interleaving, so *)
(* each action is one handler, or one stretch of an async function between *)
(* two awaits.  A state setter called after the component was unmounted    *)
(* changes nothing (SetState).  The caller is the page of                  *)
(* frontend/app/profile/new/page.tsx: its onComplete leaves the voice mode, *)
(* which unmounts the component, and it may unmount it at any other time.  *)
(*                                                                         *)
(* Strings are sequences of one-character strings, so that trim, split,    *)
(* toLowerCase, includes and startsWith are computed, not assumed.         *)
(* Time is counted in seconds by Tick: a timer holds the seconds it has    *)
(* left and may fire once it has none left.                                *)
(*                                                                         *)
(* Not modelled: the live previews agentText/userText.                     *)
(***************************************************************************)
EXTENDS Integers, Sequences, FiniteSets, TLC

(***************************************************************************)
(* Bounds of the model.                                                    *)
(***************************************************************************)
\* start() attempts, each of which creates one Room
MaxRooms == 2
\* farewell timers armed in one session
MaxArms == 2
\* utterances committed to the transcript
MaxTranscript == 2
\* handleComplete() calls awaiting room.disconnect() at the same time
MaxPending == 2
\* remote audio tracks subscribed in one session
MaxTracks == 1
\* publishData() calls awaited at the same time
MaxPublishing == 1

(***************************************************************************)
(* Program constants.                                                      *)
(***************************************************************************)
\* setTimeout(..., 4000): the farewell debounce, in seconds
FAREWELL_DELAY == 4
\* setTimeout(..., 3000): the delay between Completing and handleComplete()
COMPLETE_DELAY == 3
\* totalQuestions || 999
UNKNOWN_TOTAL_CAP == 999
\* wordCount >= 3
MIN_WORDS == 3

(***************************************************************************)
(* Strings.                                                                *)
(***************************************************************************)
UpperCase == <<"A", "B", "C", "D", "E", "F", "G", "H", "I", "J", "K", "L", "M",
               "N", "O", "P", "Q", "R", "S", "T", "U", "V", "W", "X", "Y", "Z">>
LowerCase == <<"a", "b", "c", "d", "e", "f", "g", "h", "i", "j", "k", "l", "m",
               "n", "o", "p", "q", "r", "s", "t", "u", "v", "w", "x", "y", "z">>

\* the characters the regular expression class \s matches, among those used
IsSpace(c) == c \in {" ", "\t", "\n"}

\* String.prototype.toLowerCase, one character
LowerChar(c) ==
    IF \E i \in 1..26 : UpperCase[i] = c
    THEN LowerCase[CHOOSE i \in 1..26 : UpperCase[i] = c]
    ELSE c

\* String.prototype.toLowerCase
ToLowerCase(s) == [i \in 1..Len(s) |-> LowerChar(s[i])]

\* String.prototype.trim
Trim(s) ==
    LET keep == {i \in 1..Len(s) : ~IsSpace(s[i])}
    IN  IF keep = {} THEN <<>>
        ELSE LET lo == CHOOSE i \in keep : \A j \in keep : i <= j
                 hi == CHOOSE i \in keep : \A j \in keep : j <= i
             IN  SubSeq(s, lo, hi)

\* String.prototype.includes
Includes(s, p) ==
    \E i \in 0..(Len(s) - Len(p)) : SubSeq(s, i + 1, i + Len(p)) = p

\* String.prototype.startsWith
StartsWith(s, p) == Len(p) <= Len(s) /\ SubSeq(s, 1, Len(p)) = p

\* a word count that counts the characters
SplitLengthChars(s) == Len(s)

\* s.split(/\s+/).length: one more than the number of maximal runs of spaces
SplitLength(s) ==
    1 + Cardinality({i \in 1..Len(s) :
                        IsSpace(s[i]) /\ (i = 1 \/ ~IsSpace(s[i - 1]))})

\* a check of the text that accepts the empty string too
TruthyAlways(s) == TRUE

\* a string is truthy when it is not empty
Truthy(s) == s # <<>>

IsPrefix(s, t) == Len(s) <= Len(t) /\ SubSeq(t, 1, Len(s)) = s

(***************************************************************************)
(* The farewell fragments, the participant and the inputs.                 *)
(***************************************************************************)
FAREWELL_PATTERNS ==
    { <<"i", "n", "t", "e", "r", "v", "i", "e", "w", " ", "i", "s", " ", "c", "o", "m", "p", "l", "e", "t", "e">>,
      <<"i", "n", "t", "e", "r", "v", "i", "e", "w", " ", "c", "o", "m", "p", "l", "e", "t", "e">>,
      <<"e", "n", "h", "a", "n", "c", "e", "d", " ", "r", "e", "s", "u", "m", "e">>,
      <<"r", "e", "s", "u", "m", "e", " ", "w", "i", "l", "l", " ", "b", "e", " ", "r", "e", "a", "d", "y">>,
      <<"g", "o", "o", "d", " ", "l", "u", "c", "k">>,
      <<"g", "o", "o", "d", "b", "y", "e">>,
      <<"t", "h", "a", "t", " ", "w", "r", "a", "p", "s", " ", "u", "p">>,
      <<"b", "e", "s", "t", " ", "o", "f", " ", "l", "u", "c", "k">>,
      <<"h", "a", "s", "t", "a", " ", "l", "u", "e", "g", "o">>,
      <<"g", "r", "a", "c", "i", "a", "s", " ", "p", "o", "r", " ", "t", "u", " ", "t", "i", "e", "m", "p", "o">>,
      <<"t", "h", "a", "n", "k", " ", "y", "o", "u", " ", "f", "o", "r", " ", "y", "o", "u", "r", " ", "t", "i", "m", "e">>,
      <<"t", "a", "k", "e", " ", "c", "a", "r", "e">> }

\* the marker of the agent's identity: identity?.includes('agent')
AgentMarker == <<"a", "g", "e", "n", "t">>

\* basicsAnswers.name || 'User', for a caller named Ana
participantName == <<"A", "n", "a">>

\* identities the transport reports
IdAgent == <<"a", "g", "e", "n", "t", "-", "7">>
IdUser == <<"A", "n", "a", "-", "w", "e", "b">>
IdOther == <<"B", "o", "b">>
Identities == {IdAgent, IdUser, IdOther}

\* utterance texts
TxtBlank == <<" ", " ">>
TxtYes == <<"Y", "e", "s">>
TxtAnswer == <<" ", "I", " ", " ", "l", "e", "d", " ", "i", "t", " ">>
TxtGoodLuck == <<"G", "o", "o", "d", " ", "L", "u", "c", "k", "!">>
TxtTakeCare == <<"T", "A", "K", "E", " ", "c", "a", "r", "e">>

Seg(text, final) == [text |-> text, final |-> final]

\* the segment lists of a TranscriptionReceived event
SegmentBatches ==
    { <<Seg(TxtYes, FALSE)>>,
      <<Seg(TxtYes, TRUE)>>,
      <<Seg(TxtBlank, TRUE)>>,
      <<Seg(TxtAnswer, TRUE)>>,
      <<Seg(TxtGoodLuck, TRUE)>>,
      <<Seg(TxtTakeCare, TRUE)>>,
      <<Seg(TxtAnswer, FALSE), Seg(TxtAnswer, TRUE)>> }

\* the data messages the handler does not recognise
Unrecognised(data) ==
    \/ ~data.json
    \/ data.type # "transcript"
    \/ data.role # "agent"
    \/ data.is_final = "false"
    \/ ~data.hasText
    \/ Trim(data.text) = <<>>

\* the values typed into the note input
NoteTexts == {<<>>, <<" ">>, <<" ", "u", "r", "l", " ">>}

\* the interviewPlan prop: null, or an object with the questions of each of
\* its phases (their number, or -1 when phase.questions is not an array)
NoPlan == [given |-> FALSE, phases |-> <<>>]
Plan(phases) == [given |-> TRUE, phases |-> phases]
InterviewPlans == {NoPlan, Plan(<<1, -1>>)}

\* the payloads of a DataReceived event: bytes that are not JSON, or a JSON
\* object with its fields (is_final: "true", "false" or "absent")
Data(type, role, hasText, text, isFinal) ==
    [json |-> TRUE, type |-> type, role |-> role, hasText |-> hasText,
     text |-> text, is_final |-> isFinal, state |-> ""]
NotJson ==
    [json |-> FALSE, type |-> "", role |-> "", hasText |-> FALSE,
     text |-> <<>>, is_final |-> "absent", state |-> ""]
\* an agent-state message: { type: 'state', state }
StateMessage(state) ==
    [json |-> TRUE, type |-> "state", role |-> "", hasText |-> FALSE,
     text |-> <<>>, is_final |-> "absent", state |-> state]
AgentStates == {"listening", "thinking", "speaking"}
DataPayloads ==
    { NotJson,
      Data("transcript", "agent", TRUE, TxtGoodLuck, "absent"),
      Data("transcript", "agent", TRUE, TxtGoodLuck, "false"),
      Data("transcript", "agent", FALSE, <<>>, "true"),
      Data("transcript", "agent", TRUE, TxtBlank, "true"),
      Data("transcript", "user", TRUE, TxtAnswer, "true"),
      Data("phase", "", FALSE, <<>>, "absent") }
        \cup {StateMessage(state) : state \in AgentStates}

(***************************************************************************)
(* State.                                                                  *)
(***************************************************************************)
VARIABLES
    mounted,          \* the component is mounted
    interviewPlan,    \* the interviewPlan prop
    ui,               \* the useState values, as rendered
    roomRef,          \* roomRef.current: 0 (null) or a room
    completingRef,    \* completingRef.current, the completion guard
    farewellTimerRef, \* farewellTimerRef.current: 0 (null) or a timer id
    farewellTimers,   \* the pending farewell timeouts: [id, left]
    armed,            \* farewell timeouts created so far (the next id - 1)
    completeTimer,    \* the auto-complete effect's timeout: seconds left, or NoTimer
    rooms,            \* the Room objects created so far, each "new" (no
                      \* connection yet), "connected", "closing" (its
                      \* disconnect() is running), "closed" or "aborted"
                      \* (given up before any connection)
    startPc,          \* where connectToRoom() is suspended
    startRoom,        \* connectToRoom()'s local variable room
    pending,          \* the disconnect() calls awaiting room.disconnect()
    onCompleteCalls,  \* the onComplete() calls made: the closure of each
    completingLog,    \* observer: what caused each transition into completing
    tornDown,         \* observer: disconnect() has run to its end
    sinceLastMatch,   \* observer: seconds since a farewell timer was last armed
    audioElementRef,  \* audioElementRef.current: 0 (null) or an audio element
    audioElements,    \* the audio elements attached to document.body
    tracks,           \* the remote audio tracks subscribed: [id, room]; the
                      \* element track.attach() made for a track has its id
    created,          \* audio tracks subscribed so far (the next id - 1)
    publishing,       \* the publishData() calls awaited: the room of each
    published,        \* the messages publishData() has sent
    dataIgnored       \* observer: the DataReceived handler dropped a message

vars ==
    <<mounted, interviewPlan, ui, roomRef, completingRef, farewellTimerRef,
      farewellTimers, armed, completeTimer, rooms, startPc, startRoom, pending,
      onCompleteCalls, completingLog, tornDown, sinceLastMatch,
      audioElementRef, audioElements, tracks, created, publishing, published,
      dataIgnored>>

NoTimer == -1

Min(a, b) == IF a <= b THEN a ELSE b

RECURSIVE SumQuestions(_)
SumQuestions(phases) ==
    IF phases = <<>> THEN 0
    ELSE (IF Head(phases) >= 0 THEN Head(phases) ELSE 0)
         + SumQuestions(Tail(phases))

\* totalQuestions
totalQuestions ==
    IF ~interviewPlan.given THEN 0 ELSE SumQuestions(interviewPlan.phases)

\* a state setter: nothing once the component is unmounted
SetState(u) == IF mounted THEN u ELSE ui

\* what is on screen: the completing screen, the intro screen, the error
\* screen or the main interview screen
Screen ==
    IF ui.voiceState = "completing" THEN "completing"
    ELSE IF ui.showIntro THEN "intro"
    ELSE IF ui.voiceState = "error" THEN "error"
    ELSE "main"

\* the state after the first render, for a caller passing one of these plans
InitWith(plans) ==
    /\ mounted = TRUE
    /\ interviewPlan \in plans
    /\ ui = [voiceState |-> "idle", isConnected |-> FALSE, transcript |-> <<>>,
             showIntro |-> TRUE, noteText |-> <<>>, error |-> "null",
             interviewEnded |-> FALSE, answeredCount |-> 0]
    /\ roomRef = 0
    /\ completingRef = FALSE
    /\ farewellTimerRef = 0
    /\ farewellTimers = {}
    /\ armed = 0
    /\ completeTimer = NoTimer
    /\ rooms = <<>>
    /\ startPc = "none"
    /\ startRoom = 0
    /\ pending = <<>>
    /\ onCompleteCalls = <<>>
    /\ completingLog = <<>>
    /\ tornDown = FALSE
    /\ sinceLastMatch = FAREWELL_DELAY
    /\ audioElementRef = 0
    /\ audioElements = {}
    /\ tracks = {}
    /\ created = 0
    /\ publishing = <<>>
    /\ published = 0
    /\ dataIgnored = FALSE

\* the first render of a caller that passes no plan
Init == InitWith({NoPlan})

\* an effect that never schedules handleComplete()
AutoCompleteEffectNever == completeTimer' = NoTimer

\* the auto-complete effect: it runs again, and its cleanup clears the
\* timeout it had set, whenever interviewEnded or handleComplete (transcript,
\* noteText) changed in the step; unmounting runs the cleanup
AutoCompleteEffect ==
    completeTimer' =
        IF ~mounted' \/ ~ui'.interviewEnded THEN NoTimer
        ELSE IF \/ ui'.interviewEnded # ui.interviewEnded
                \/ ui'.transcript # ui.transcript
                \/ ui'.noteText # ui.noteText
             THEN COMPLETE_DELAY
             ELSE completeTimer

refVars == <<roomRef, completingRef, farewellTimerRef>>
farewellVars == <<farewellTimerRef, farewellTimers, armed, sinceLastMatch>>
startVars == <<startPc, startRoom>>
outVars == <<pending, onCompleteCalls, tornDown>>
audioVars == <<audioElementRef, audioElements, tracks, created>>
noteVars == <<publishing, published>>

(***************************************************************************)
(* The Room: what room.disconnect() does to it.                            *)
(***************************************************************************)
\* room.disconnect(): a connected room starts closing (its Disconnected
\* event follows), a room that never connected gives up connecting
RoomDisconnectCall(st) ==
    CASE st = "connected" -> "closing"
      [] st = "new" -> "aborted"
      [] OTHER -> st

\* room.disconnect() has resolved
RoomDisconnectDone(st) == st \in {"closed", "aborted"}

(***************************************************************************)
(* start(): handleStartInterview and connectToRoom.                        *)
(***************************************************************************)
\* a catch block that records the message and leaves the state as it is
ConnectCatchNoState(message) ==
    /\ ui' = SetState([ui EXCEPT !.error = message])
    /\ startPc' = "none"

\* the catch block of connectToRoom
ConnectCatch(message) ==
    /\ ui' = SetState([ui EXCEPT !.error = message, !.voiceState = "error"])
    /\ startPc' = "none"

\* a click on Start Interview or Try Again, up to await getToken(...)
StartClick ==
    /\ mounted
    /\ Screen \in {"intro", "error"}
    /\ startPc = "none"
    /\ Len(rooms) < MaxRooms
    /\ ui' = SetState([ui EXCEPT !.showIntro = FALSE,
                                 !.voiceState = "connecting",
                                 !.error = "null"])
    /\ startPc' = "token"
    /\ UNCHANGED <<mounted, interviewPlan, dataIgnored,
                   audioVars, noteVars, refVars, farewellTimers, armed,
                   sinceLastMatch, rooms, startRoom, outVars, completingLog>>
    /\ AutoCompleteEffect

\* getToken resolved: the Room is created, kept in roomRef, its handlers are
\* registered, and room.connect(url, token) is awaited
TokenResolved ==
    /\ startPc = "token"
    /\ rooms' = Append(rooms, "new")
    /\ roomRef' = Len(rooms) + 1
    /\ startRoom' = Len(rooms) + 1
    /\ startPc' = "connect"
    /\ UNCHANGED <<mounted, interviewPlan, dataIgnored,
                   audioVars, noteVars, ui, completingRef, farewellVars,
                   outVars, completingLog>>
    /\ AutoCompleteEffect

\* getToken rejected
TokenRejected ==
    /\ startPc = "token"
    /\ ConnectCatch("Failed to get token")
    /\ UNCHANGED <<mounted, interviewPlan, dataIgnored,
                   audioVars, noteVars, refVars, farewellTimers, armed,
                   sinceLastMatch, rooms, startRoom, outVars, completingLog>>
    /\ AutoCompleteEffect

\* room.connect resolved: setMicrophoneEnabled(true) is awaited
ConnectResolved ==
    /\ startPc = "connect"
    /\ rooms[startRoom] \in {"connected", "closing", "closed"}
    /\ startPc' = "mic"
    /\ UNCHANGED <<mounted, interviewPlan, dataIgnored,
                   audioVars, noteVars, ui, refVars, farewellTimers, armed,
                   sinceLastMatch, rooms, startRoom, outVars, completingLog>>
    /\ AutoCompleteEffect

\* room.connect rejected
ConnectRejected ==
    /\ startPc = "connect"
    /\ rooms[startRoom] \in {"new", "aborted"}
    /\ ConnectCatch("could not establish signal connection")
    /\ UNCHANGED <<mounted, interviewPlan, dataIgnored,
                   audioVars, noteVars, refVars, farewellTimers, armed,
                   sinceLastMatch, rooms, startRoom, outVars, completingLog>>
    /\ AutoCompleteEffect

\* setMicrophoneEnabled resolved: setVoiceState('listening')
MicResolved ==
    /\ startPc = "mic"
    /\ ui' = SetState([ui EXCEPT !.voiceState = "listening"])
    /\ startPc' = "none"
    /\ UNCHANGED <<mounted, interviewPlan, dataIgnored,
                   audioVars, noteVars, refVars, farewellTimers, armed,
                   sinceLastMatch, rooms, startRoom, outVars, completingLog>>
    /\ AutoCompleteEffect

\* setMicrophoneEnabled rejected
MicRejected ==
    /\ startPc = "mic"
    /\ ConnectCatch("Permission denied")
    /\ UNCHANGED <<mounted, interviewPlan, dataIgnored,
                   audioVars, noteVars, refVars, farewellTimers, armed,
                   sinceLastMatch, rooms, startRoom, outVars, completingLog>>
    /\ AutoCompleteEffect

(***************************************************************************)
(* The handlers registered on a Room.                                      *)
(***************************************************************************)
\* ConnectionStateChanged, Connected: room r, being connected by
\* connectToRoom, has its connection
ConnectionConnected(r) ==
    /\ r \in 1..Len(rooms)
    /\ rooms[r] = "new"
    /\ startPc = "connect" /\ startRoom = r
    /\ rooms' = [rooms EXCEPT ![r] = "connected"]
    /\ ui' = SetState([ui EXCEPT !.isConnected = TRUE,
                                 !.voiceState = "listening"])
    /\ UNCHANGED <<mounted, interviewPlan, dataIgnored,
                   audioVars, noteVars, refVars, farewellTimers, armed,
                   sinceLastMatch, startVars, outVars, completingLog>>
    /\ AutoCompleteEffect

\* ConnectionStateChanged, Disconnected: the connection of room r dropped, or
\* its disconnect() got there
ConnectionDisconnected(r) ==
    /\ r \in 1..Len(rooms)
    /\ rooms[r] \in {"connected", "closing"}
    /\ rooms' = [rooms EXCEPT ![r] = "closed"]
    /\ ui' = SetState([ui EXCEPT !.isConnected = FALSE,
                                 !.voiceState = IF ~completingRef THEN "idle"
                                                ELSE @])
    /\ tracks' = {t \in tracks : t.room # r}
    /\ UNCHANGED <<mounted, interviewPlan, dataIgnored,
                   noteVars, refVars, farewellTimers, armed,
                   sinceLastMatch, startVars, outVars, completingLog,
                   audioElementRef, audioElements, created>>
    /\ AutoCompleteEffect

\* TrackSubscribed, an audio track: track.attach() makes an audio element,
\* which is appended to document.body and kept in audioElementRef
TrackSubscribed(r) ==
    /\ r \in 1..Len(rooms)
    /\ rooms[r] = "connected"
    /\ created < MaxTracks
    /\ created' = created + 1
    /\ tracks' = tracks \cup {[id |-> created + 1, room |-> r]}
    /\ audioElements' = audioElements \cup {created + 1}
    /\ audioElementRef' = created + 1
    /\ ui' = SetState([ui EXCEPT !.voiceState = "speaking"])
    /\ UNCHANGED <<mounted, interviewPlan, dataIgnored,
                   noteVars, refVars, farewellTimers, armed,
                   sinceLastMatch, rooms, startVars, outVars, completingLog>>
    /\ AutoCompleteEffect

\* TrackUnsubscribed, an audio track of room r, which the remote side
\* unpublished or which the room lets go of while it disconnects:
\* track.detach().forEach(el => el.remove())
TrackUnsubscribed(r) ==
    /\ r \in 1..Len(rooms)
    /\ rooms[r] \in {"connected", "closing"}
    /\ \E t \in tracks :
           /\ t.room = r
           /\ tracks' = tracks \ {t}
           /\ audioElements' = audioElements \ {t.id}
    /\ ui' = SetState([ui EXCEPT !.voiceState = "listening"])
    /\ UNCHANGED <<mounted, interviewPlan, dataIgnored,
                   noteVars, refVars, farewellTimers,
                   armed, sinceLastMatch, rooms, startVars, outVars,
                   completingLog, audioElementRef, created>>
    /\ AutoCompleteEffect

\* isAgent: the identity carries the agent marker or does not start with the
\* participant's own name
IsAgent(identity) ==
    Includes(identity, AgentMarker) \/ ~StartsWith(identity, participantName)

\* FAREWELL_PATTERNS.some(p => lower.includes(p))
IsFarewell(text) ==
    \E p \in FAREWELL_PATTERNS : Includes(ToLowerCase(text), p)

\* arming that leaves the timeout armed before it pending
ArmFarewellTimerKeep(timers, ref, id) ==
    timers \cup {[id |-> id, left |-> FAREWELL_DELAY]}

\* arming that replaces the timeout armed before it without restarting the
\* delay: the new timeout is due when the one it replaces was
ArmFarewellTimerNoRestart(timers, ref, id) ==
    {t \in timers : t.id # ref}
        \cup {[id |-> id,
               left |-> IF \E t \in timers : t.id = ref
                        THEN (CHOOSE t \in timers : t.id = ref).left
                        ELSE FAREWELL_DELAY]}

\* if (farewellTimerRef.current) clearTimeout(farewellTimerRef.current);
\* farewellTimerRef.current = setTimeout(..., 4000), the new timeout being id
ArmFarewellTimer(timers, ref, id) ==
    {t \in timers : t.id # ref} \cup {[id |-> id, left |-> FAREWELL_DELAY]}

\* counting without the cap
NextAnsweredCountUnclamped(prev) == prev + 1

\* Math.min(prev + 1, totalQuestions || 999)
NextAnsweredCount(prev) ==
    Min(prev + 1, IF totalQuestions # 0 THEN totalQuestions
                  ELSE UNKNOWN_TOTAL_CAP)

\* an utterance of the transcript (its timestamp, new Date(), left out)
Utterance(role, text) == [role |-> role, text |-> text]

\* what the TranscriptionReceived handler reads and writes
HandlerState ==
    [transcript |-> ui.transcript, answeredCount |-> ui.answeredCount,
     timerRef |-> farewellTimerRef, timers |-> farewellTimers,
     armed |-> armed, since |-> sinceLastMatch]

\* the body of the handler's loop, for one segment
HandleSegment(h, segment, identity) ==
    LET text == segment.text
        isFinal == segment.final
    IN  IF IsAgent(identity)
        THEN IF isFinal /\ Truthy(Trim(text))
             THEN LET h1 == [h EXCEPT !.transcript =
                                Append(@, Utterance("agent", text))]
                  IN  IF ~completingRef /\ IsFarewell(text)
                      THEN [h1 EXCEPT
                              !.timers = ArmFarewellTimer(h.timers, h.timerRef,
                                                          h.armed + 1),
                              !.timerRef = h.armed + 1,
                              !.armed = h.armed + 1,
                              !.since = 0]
                      ELSE h1
             ELSE h
        ELSE IF isFinal /\ Truthy(Trim(text))
             THEN [h EXCEPT
                     !.transcript = Append(@, Utterance("user", text)),
                     !.answeredCount =
                         IF SplitLength(Trim(text)) >= MIN_WORDS
                         THEN NextAnsweredCount(@) ELSE @]
             ELSE h

\* for (const segment of segments) ...
RECURSIVE HandleSegments(_, _, _)
HandleSegments(h, segments, identity) ==
    IF segments = <<>> THEN h
    ELSE HandleSegments(HandleSegment(h, Head(segments), identity),
                        Tail(segments), identity)

\* TranscriptionReceived: segments of the participant with this identity
TranscriptionReceived(r, segments, identity) ==
    /\ r \in 1..Len(rooms)
    /\ rooms[r] = "connected"
    /\ LET h == HandleSegments(HandlerState, segments, identity)
       IN  /\ Len(h.transcript) <= MaxTranscript
           /\ h.armed <= MaxArms
           /\ ui' = SetState([ui EXCEPT !.transcript = h.transcript,
                                        !.answeredCount = h.answeredCount])
           /\ farewellTimerRef' = h.timerRef
           /\ farewellTimers' = h.timers
           /\ armed' = h.armed
           /\ sinceLastMatch' = h.since
    /\ UNCHANGED <<mounted, interviewPlan, dataIgnored,
                   audioVars, noteVars, roomRef, completingRef, rooms,
                   startVars, outVars, completingLog>>
    /\ AutoCompleteEffect

\* a handler that takes what it cannot parse for the end of the session
DataReceivedFatal(r, data) ==
    /\ r \in 1..Len(rooms)
    /\ rooms[r] = "connected"
    /\ IF /\ data.json
          /\ data.type = "transcript"
          /\ data.role = "agent"
          /\ data.is_final # "false"
          /\ data.hasText /\ Truthy(Trim(data.text))
       THEN /\ Len(ui.transcript) < MaxTranscript
            /\ ui' = SetState([ui EXCEPT !.transcript =
                                  Append(@, Utterance("agent", data.text))])
            /\ UNCHANGED dataIgnored
       ELSE /\ ui' = SetState([ui EXCEPT !.voiceState =
                                  IF data.json THEN @ ELSE "error"])
            /\ dataIgnored' = TRUE
    /\ UNCHANGED <<mounted, interviewPlan, audioVars, noteVars, refVars,
                   farewellTimers, armed, sinceLastMatch, rooms, startVars,
                   outVars, completingLog>>
    /\ AutoCompleteEffect

\* DataReceived: JSON.parse throws on what is not JSON, and the catch block
\* ignores it; a transcript message of the agent is appended
DataReceived(r, data) ==
    /\ r \in 1..Len(rooms)
    /\ rooms[r] = "connected"
    /\ IF /\ data.json
          /\ data.type = "transcript"
          /\ data.role = "agent"
          /\ data.is_final # "false"
          /\ data.hasText /\ Truthy(Trim(data.text))
       THEN /\ Len(ui.transcript) < MaxTranscript
            /\ ui' = SetState([ui EXCEPT !.transcript =
                                  Append(@, Utterance("agent", data.text))])
            /\ UNCHANGED dataIgnored
       ELSE /\ ui' = ui
            /\ dataIgnored' = TRUE
    /\ UNCHANGED <<mounted, interviewPlan,
                   audioVars, noteVars, refVars,
                   farewellTimers, armed, sinceLastMatch, rooms, startVars,
                   outVars, completingLog>>
    /\ AutoCompleteEffect

\* a departure handler that takes every participant for the agent
IsAgentIdentityAny(identity) == TRUE

\* participant.identity?.includes('agent')
IsAgentIdentity(identity) == Includes(identity, AgentMarker)

\* ParticipantDisconnected: the participant with this identity left
ParticipantDisconnected(r, identity) ==
    /\ r \in 1..Len(rooms)
    /\ rooms[r] = "connected"
    /\ IF IsAgentIdentity(identity) /\ ~completingRef
       THEN /\ completingRef' = TRUE
            /\ ui' = SetState([ui EXCEPT !.interviewEnded = TRUE,
                                         !.voiceState = "completing"])
            /\ completingLog' = Append(completingLog, "departure")
       ELSE UNCHANGED <<completingRef, ui, completingLog>>
    /\ UNCHANGED <<mounted, interviewPlan, dataIgnored,
                   audioVars, noteVars, roomRef, farewellVars, rooms,
                   startVars, outVars>>
    /\ AutoCompleteEffect

\* a farewell timeout whose callback does not read the completion guard
FarewellTimerFireUnguarded(id) ==
    /\ \E t \in farewellTimers : t.id = id /\ t.left = 0
    /\ farewellTimers' = {t \in farewellTimers : t.id # id}
    /\ completingRef' = TRUE
    /\ ui' = SetState([ui EXCEPT !.interviewEnded = TRUE,
                                 !.voiceState = "completing"])
    /\ completingLog' = Append(completingLog, "farewell")
    /\ UNCHANGED <<mounted, interviewPlan, dataIgnored,
                   audioVars, noteVars, roomRef, farewellTimerRef, armed,
                   sinceLastMatch, rooms, startVars, outVars>>
    /\ AutoCompleteEffect

\* the farewell timeout id fires
FarewellTimerFire(id) ==
    /\ \E t \in farewellTimers : t.id = id /\ t.left = 0
    /\ farewellTimers' = {t \in farewellTimers : t.id # id}
    /\ IF ~completingRef
       THEN /\ completingRef' = TRUE
            /\ ui' = SetState([ui EXCEPT !.interviewEnded = TRUE,
                                         !.voiceState = "completing"])
            /\ completingLog' = Append(completingLog, "farewell")
       ELSE UNCHANGED <<completingRef, ui, completingLog>>
    /\ UNCHANGED <<mounted, interviewPlan, dataIgnored,
                   audioVars, noteVars, roomRef, farewellTimerRef, armed,
                   sinceLastMatch, rooms, startVars, outVars>>
    /\ AutoCompleteEffect

(***************************************************************************)
(* disconnect(), complete() and the completion callback.                   *)
(***************************************************************************)
\* a disconnect() that clears the transcript as well
DisconnectTailReset(u) ==
    [u EXCEPT !.isConnected = FALSE, !.voiceState = "idle",
              !.transcript = <<>>]

\* the end of disconnect(): setIsConnected(false); setVoiceState('idle')
DisconnectTail(u) == [u EXCEPT !.isConnected = FALSE, !.voiceState = "idle"]

\* userMessages.join('\n\n')
RECURSIVE Join(_)
Join(texts) ==
    IF texts = <<>> THEN <<>>
    ELSE IF Len(texts) = 1 THEN Head(texts)
    ELSE Head(texts) \o <<"\n", "\n">> \o Join(Tail(texts))

IsUser(t) == t.role = "user"

\* transcript.filter(t => t.role === 'user').map(t => t.text)
UserMessages(transcript) ==
    LET users == SelectSeq(transcript, IsUser)
    IN  [i \in 1..Len(users) |-> users[i].text]

\* the arguments of onComplete(voiceAnswers, transcript), from the transcript
\* and noteText of the render handleComplete was created in; a key that is
\* not set is the empty set, a key that is set the set of its value
CompletionArgs(transcript, noteText) ==
    [interviewTranscript |->
         IF Len(UserMessages(transcript)) > 0
         THEN {Join(UserMessages(transcript))} ELSE {},
     additionalNotes |-> IF Truthy(Trim(noteText)) THEN {noteText} ELSE {},
     transcript |-> transcript]

\* a disconnect() call suspended on await roomRef.current.disconnect(), with
\* what its caller holds in its closure: the transcript and noteText of the
\* render handleComplete was created in.  Every update of the transcript
\* appends to it (AppendOnly below), so the closure's transcript is kept as
\* its length: it is that prefix of the current transcript
Suspended(kind, room, transcript, noteText) ==
    [kind |-> kind, room |-> room, length |-> Len(transcript),
     noteText |-> noteText]

\* the transcript a suspended call holds
ClosureTranscript(p) == SubSeq(ui.transcript, 1, p.length)

\* the arguments of the onComplete() call such a call made
CallArgs(p) == CompletionArgs(ClosureTranscript(p), p.noteText)

\* the number of suspended calls of this kind
RECURSIVE CountKind(_, _)
CountKind(calls, kind) ==
    IF calls = <<>> THEN 0
    ELSE (IF Head(calls).kind = kind THEN 1 ELSE 0)
             + CountKind(Tail(calls), kind)

\* the cleanup on unmount, its first statement:
\* if (farewellTimerRef.current) clearTimeout(farewellTimerRef.current)
UnmountCleanup(timers, ref) == {t \in timers : t.id # ref}

\* onComplete(voiceAnswers, transcript) is the caller's handleVoiceComplete:
\* its setMode(...) leaves the voice mode, which unmounts the component
CallerUnmounts == TRUE

\* the onComplete(...) call of a handleComplete() with closure p, and what
\* the caller makes of it
OnComplete(p) ==
    /\ onCompleteCalls' = Append(onCompleteCalls, p)
    /\ IF CallerUnmounts /\ mounted
       THEN /\ mounted' = FALSE
            /\ farewellTimers' = UnmountCleanup(farewellTimers,
                                                farewellTimerRef)
       ELSE UNCHANGED <<mounted, farewellTimers>>

\* a release that removes the element and keeps the reference to it
ReleaseAudioKeepRef ==
    /\ audioElements' = audioElements \ {audioElementRef}
    /\ audioElementRef' = audioElementRef

\* disconnect(), after its await: if (audioElementRef.current) {
\* audioElementRef.current.remove(); audioElementRef.current = null }
ReleaseAudio ==
    /\ audioElements' = audioElements \ {audioElementRef}
    /\ audioElementRef' = 0

\* handleComplete(): await disconnect(), then onComplete(...).  The
\* disconnect() of the cleanup the caller's unmount runs finds roomRef and
\* audioElementRef null
HandleComplete ==
    IF roomRef # 0
    THEN /\ CountKind(pending, "complete") < MaxPending
         /\ rooms' = [rooms EXCEPT ![roomRef] = RoomDisconnectCall(@)]
         /\ pending' = Append(pending, Suspended("complete", roomRef,
                                                 ui.transcript, ui.noteText))
         /\ UNCHANGED <<ui, roomRef, onCompleteCalls, tornDown, mounted,
                        farewellTimers, audioElementRef, audioElements>>
    ELSE /\ ReleaseAudio
         /\ ui' = SetState(DisconnectTail(ui))
         /\ tornDown' = TRUE
         /\ OnComplete(Suspended("complete", 0, ui.transcript, ui.noteText))
         /\ UNCHANGED <<roomRef, rooms, pending>>

\* a click on End interview and generate profile
EndClick ==
    /\ mounted
    /\ Screen = "main"
    /\ HandleComplete
    /\ UNCHANGED <<interviewPlan, dataIgnored,
                   completingRef, farewellTimerRef, armed,
                   sinceLastMatch, startVars, completingLog, tracks, created,
                   noteVars>>
    /\ AutoCompleteEffect

\* the auto-complete effect's timeout fires: handleComplete()
AutoCompleteFire ==
    /\ completeTimer = 0
    /\ HandleComplete
    /\ completeTimer' = NoTimer
    /\ UNCHANGED <<interviewPlan, dataIgnored,
                   completingRef, farewellTimerRef, armed,
                   sinceLastMatch, startVars, completingLog, tracks, created,
                   noteVars>>

\* room.disconnect() resolved for the i-th suspended disconnect(): the rest
\* of disconnect(), and of handleComplete() when that was its caller
DisconnectResolved(i) ==
    /\ i \in 1..Len(pending)
    /\ RoomDisconnectDone(rooms[pending[i].room])
    /\ roomRef' = 0
    /\ ReleaseAudio
    /\ ui' = SetState(DisconnectTail(ui))
    /\ tornDown' = TRUE
    /\ pending' = [j \in 1..(Len(pending) - 1) |->
                      IF j < i THEN pending[j] ELSE pending[j + 1]]
    /\ IF pending[i].kind = "complete"
       THEN OnComplete(pending[i])
       ELSE UNCHANGED <<onCompleteCalls, mounted, farewellTimers>>
    /\ UNCHANGED <<interviewPlan, dataIgnored,
                   completingRef, farewellTimerRef, armed,
                   sinceLastMatch, rooms, startVars, completingLog, tracks,
                   created, noteVars>>
    /\ AutoCompleteEffect

\* disconnect(), up to its await or, with no room, to its end; the state
\* setters do nothing in the cleanup of a component that is being unmounted
DisconnectCall(kind) ==
    IF roomRef # 0
    THEN /\ rooms' = [rooms EXCEPT ![roomRef] = RoomDisconnectCall(@)]
         /\ pending' = Append(pending, Suspended(kind, roomRef, <<>>, <<>>))
         /\ UNCHANGED <<ui, tornDown, audioElementRef, audioElements>>
    ELSE /\ ReleaseAudio
         /\ ui' = IF kind = "unmount" THEN ui ELSE SetState(DisconnectTail(ui))
         /\ tornDown' = TRUE
         /\ UNCHANGED <<rooms, pending>>

\* the component is unmounted: the cleanup clears the farewell timeout and
\* calls disconnect(), not awaited; the auto-complete effect's cleanup runs
Unmount ==
    /\ mounted
    /\ mounted' = FALSE
    /\ farewellTimers' = UnmountCleanup(farewellTimers, farewellTimerRef)
    /\ DisconnectCall("unmount")
    /\ UNCHANGED <<interviewPlan, dataIgnored,
                   refVars, armed, sinceLastMatch, startVars,
                   onCompleteCalls, completingLog, tracks, created, noteVars>>
    /\ AutoCompleteEffect

\* disconnect(), called on its own
Disconnect ==
    /\ mounted
    /\ CountKind(pending, "disconnect") < MaxPending
    /\ DisconnectCall("disconnect")
    /\ UNCHANGED <<mounted, interviewPlan, dataIgnored,
                   refVars, farewellVars, startVars,
                   onCompleteCalls, completingLog, tracks, created, noteVars>>
    /\ AutoCompleteEffect

(***************************************************************************)
(* Notes.                                                                  *)
(***************************************************************************)
\* onChange of the note input: setNoteText(e.target.value)
SetNoteText(text) ==
    /\ mounted
    /\ Screen = "main"
    /\ text # ui.noteText
    /\ ui' = SetState([ui EXCEPT !.noteText = text])
    /\ UNCHANGED <<mounted, interviewPlan, dataIgnored,
                   audioVars, noteVars, refVars,
                   farewellTimers, armed, sinceLastMatch, rooms, startVars,
                   outVars, completingLog>>
    /\ AutoCompleteEffect

\* a failed publish that puts the session in the error state
PublishRejectedToError(k) ==
    /\ k \in 1..Len(publishing)
    /\ publishing' = [j \in 1..(Len(publishing) - 1) |->
                         IF j < k THEN publishing[j] ELSE publishing[j + 1]]
    /\ ui' = SetState([ui EXCEPT !.noteText = <<>>, !.voiceState = "error"])
    /\ UNCHANGED <<mounted, interviewPlan, dataIgnored,
                   audioVars, refVars, farewellTimers,
                   armed, sinceLastMatch, rooms, startVars, outVars,
                   completingLog, published>>
    /\ AutoCompleteEffect

\* handleAddNote(), up to await publishData(...): the trimmed note is appended
\* to the transcript and handed to the data channel of roomRef.current
HandleAddNote ==
    /\ mounted
    /\ Screen = "main"
    /\ IF Truthy(Trim(ui.noteText)) /\ roomRef # 0
       THEN /\ Len(ui.transcript) < MaxTranscript
            /\ Len(publishing) < MaxPublishing
            /\ ui' = SetState([ui EXCEPT
                                 !.transcript =
                                     Append(@, Utterance("user",
                                                         Trim(ui.noteText)))])
            /\ publishing' = Append(publishing, roomRef)
       ELSE UNCHANGED <<ui, publishing>>
    /\ UNCHANGED <<mounted, interviewPlan, dataIgnored,
                   audioVars, refVars, farewellTimers,
                   armed, sinceLastMatch, rooms, startVars, outVars,
                   completingLog, published>>
    /\ AutoCompleteEffect

\* publishData() resolved, over the connection of its room: the note is
\* sent, then setNoteText('')
PublishResolved(k) ==
    /\ k \in 1..Len(publishing)
    /\ rooms[publishing[k]] = "connected"
    /\ publishing' = [j \in 1..(Len(publishing) - 1) |->
                         IF j < k THEN publishing[j] ELSE publishing[j + 1]]
    /\ published' = published + 1
    /\ ui' = SetState([ui EXCEPT !.noteText = <<>>])
    /\ UNCHANGED <<mounted, interviewPlan, dataIgnored,
                   audioVars, refVars, farewellTimers,
                   armed, sinceLastMatch, rooms, startVars, outVars,
                   completingLog>>
    /\ AutoCompleteEffect

\* publishData() rejected: the catch block logs it, then setNoteText('')
PublishRejected(k) ==
    /\ k \in 1..Len(publishing)
    /\ publishing' = [j \in 1..(Len(publishing) - 1) |->
                         IF j < k THEN publishing[j] ELSE publishing[j + 1]]
    /\ ui' = SetState([ui EXCEPT !.noteText = <<>>])
    /\ UNCHANGED <<mounted, interviewPlan, dataIgnored,
                   audioVars, refVars, farewellTimers,
                   armed, sinceLastMatch, rooms, startVars, outVars,
                   completingLog, published>>
    /\ AutoCompleteEffect

(***************************************************************************)
(* Time.                                                                   *)
(***************************************************************************)
\* d seconds pass
Advance(d) ==
    /\ farewellTimers' =
           {[id |-> t.id, left |-> IF t.left > d THEN t.left - d ELSE 0] :
                t \in farewellTimers}
    /\ completeTimer' = IF completeTimer > d THEN completeTimer - d
                        ELSE IF completeTimer = NoTimer THEN NoTimer ELSE 0
    /\ sinceLastMatch' = Min(sinceLastMatch + d, FAREWELL_DELAY)
    /\ UNCHANGED <<mounted, interviewPlan, dataIgnored,
                   audioVars, noteVars, ui, refVars, armed, rooms,
                   startVars, outVars, completingLog>>

\* a second passes
Tick == Advance(1)

\* the seconds left on the pending timeouts that are not due yet
TimesLeft ==
    {t.left : t \in {u \in farewellTimers : u.left > 0}}
        \cup (IF completeTimer > 0 THEN {completeTimer} ELSE {})

\* time passes until the next timeout is due
Elapse ==
    /\ TimesLeft # {}
    /\ Advance(CHOOSE d \in TimesLeft : \A e \in TimesLeft : d <= e)

(***************************************************************************)
(* The specifications.  Spec is the session from the mount of the component *)
(* to its teardown: every start() step and retry, the connection and track  *)
(* events, the farewell utterances of the agent, the departures, the two    *)
(* timeouts, complete() and the unmount.  The transcript's content is the   *)
(* subject of SpecTranscript and SpecAggregate, the farewell delay that of  *)
(* SpecFarewell.                                                           *)
(***************************************************************************)
Next ==
    \/ StartClick
    \/ TokenResolved
    \/ TokenRejected
    \/ ConnectResolved
    \/ ConnectRejected
    \/ MicResolved
    \/ MicRejected
    \/ \E r \in 1..MaxRooms : ConnectionConnected(r)
    \/ \E r \in 1..MaxRooms : ConnectionDisconnected(r)
    \/ \E r \in 1..MaxRooms : TrackSubscribed(r)
    \/ \E r \in 1..MaxRooms : TrackUnsubscribed(r)
    \/ \E r \in 1..MaxRooms :
           TranscriptionReceived(r, <<Seg(TxtGoodLuck, TRUE)>>, IdAgent)
    \/ \E r \in 1..MaxRooms, identity \in {IdAgent, IdUser} :
           ParticipantDisconnected(r, identity)
    \/ \E id \in 1..MaxArms : FarewellTimerFire(id)
    \/ AutoCompleteFire
    \/ EndClick
    \/ \E i \in 1..(MaxPending + 1) : DisconnectResolved(i)
    \/ Unmount
    \/ Elapse

Spec == Init /\ [][Next]_vars

\* the state a successful start() leaves: the intro is gone, room 1 is
\* connected and kept in roomRef, the microphone is enabled
StartedWith(plans) ==
    /\ mounted = TRUE
    /\ interviewPlan \in plans
    /\ ui = [voiceState |-> "listening", isConnected |-> TRUE,
             transcript |-> <<>>, showIntro |-> FALSE, noteText |-> <<>>,
             error |-> "null", interviewEnded |-> FALSE, answeredCount |-> 0]
    /\ roomRef = 1
    /\ completingRef = FALSE
    /\ farewellTimerRef = 0
    /\ farewellTimers = {}
    /\ armed = 0
    /\ completeTimer = NoTimer
    /\ rooms = <<"connected">>
    /\ startPc = "none"
    /\ startRoom = 1
    /\ pending = <<>>
    /\ onCompleteCalls = <<>>
    /\ completingLog = <<>>
    /\ tornDown = FALSE
    /\ sinceLastMatch = FAREWELL_DELAY
    /\ audioElementRef = 0
    /\ audioElements = {}
    /\ tracks = {}
    /\ created = 0
    /\ publishing = <<>>
    /\ published = 0
    /\ dataIgnored = FALSE

\* the farewell debounce of a started session, second by second
FarewellBatches ==
    {<<Seg(TxtGoodLuck, TRUE)>>, <<Seg(TxtTakeCare, TRUE)>>,
     <<Seg(TxtYes, TRUE)>>}

NextFarewell ==
    \/ \E segments \in FarewellBatches :
           TranscriptionReceived(1, segments, IdAgent)
    \/ \E identity \in {IdAgent, IdUser} : ParticipantDisconnected(1, identity)
    \/ \E id \in 1..MaxArms : FarewellTimerFire(id)
    \/ AutoCompleteFire
    \/ ConnectionDisconnected(1)
    \/ \E i \in 1..(MaxPending + 1) : DisconnectResolved(i)
    \/ Unmount
    \/ Tick

InitFarewell == StartedWith({NoPlan})

SpecFarewell == InitFarewell /\ [][NextFarewell]_vars

\* the data messages of a started session, among its other events
NextData ==
    \/ NextFarewell
    \/ \E data \in DataPayloads : DataReceived(1, data)

SpecData == InitFarewell /\ [][NextData]_vars

\* one farewell of the agent in a started session and nothing after it: up
\* to the farewell the agent's audio track comes and goes and data messages
\* are dropped; after it time passes, the timeouts fire, and the room does
\* what room.disconnect() makes it do
QuietFarewell ==
    /\ armed = 0
    /\ TranscriptionReceived(1, <<Seg(TxtGoodLuck, TRUE)>>, IdAgent)

QuietPrelude ==
    /\ armed = 0
    /\ \/ TrackSubscribed(1)
       \/ TrackUnsubscribed(1)
       \/ \E data \in DataPayloads : Unrecognised(data) /\ DataReceived(1, data)

RoomCloses ==
    /\ rooms[1] = "closing"
    /\ ConnectionDisconnected(1) \/ TrackUnsubscribed(1)

NextQuiet ==
    \/ QuietPrelude
    \/ QuietFarewell
    \/ Tick
    \/ \E id \in 1..MaxArms : FarewellTimerFire(id)
    \/ AutoCompleteFire
    \/ RoomCloses
    \/ \E i \in 1..(MaxPending + 1) : DisconnectResolved(i)

InitQuiet == StartedWith(InterviewPlans)

\* setTimeout callbacks run once they are due, time passes, a closing room
\* emits Disconnected and its disconnect() promise resolves
SpecQuiet ==
    /\ InitQuiet
    /\ [][NextQuiet]_vars
    /\ WF_vars(Tick)
    /\ WF_vars(\E id \in 1..MaxArms : FarewellTimerFire(id))
    /\ WF_vars(AutoCompleteFire)
    /\ WF_vars(rooms[1] = "closing" /\ ConnectionDisconnected(1))
    /\ WF_vars(\E i \in 1..(MaxPending + 1) : DisconnectResolved(i))

\* the transcription segments of a started session
NextAggregate ==
    \E segments \in SegmentBatches, identity \in Identities :
        TranscriptionReceived(1, segments, identity)

InitAggregate == StartedWith(InterviewPlans)

SpecAggregate == InitAggregate /\ [][NextAggregate]_vars

\* everything that writes the transcript, and the operations around it
TranscriptBatches == {<<Seg(TxtAnswer, FALSE), Seg(TxtAnswer, TRUE)>>}

NextTranscript ==
    \/ StartClick
    \/ TokenResolved
    \/ TokenRejected
    \/ ConnectResolved
    \/ ConnectRejected
    \/ MicResolved
    \/ MicRejected
    \/ \E r \in 1..MaxRooms : ConnectionConnected(r)
    \/ \E r \in 1..MaxRooms : ConnectionDisconnected(r)
    \/ \E r \in 1..MaxRooms, segments \in TranscriptBatches :
           TranscriptionReceived(r, segments, IdUser)
    \/ \E r \in 1..MaxRooms, data \in DataPayloads : DataReceived(r, data)
    \/ \E text \in NoteTexts : SetNoteText(text)
    \/ HandleAddNote
    \/ \E k \in 1..MaxPublishing : PublishResolved(k)
    \/ \E k \in 1..MaxPublishing : PublishRejected(k)
    \/ EndClick
    \/ \E i \in 1..(MaxPending + 1) : DisconnectResolved(i)

SpecTranscript == Init /\ [][NextTranscript]_vars

\* disconnect() called at any stage of a session, any number of times, with
\* the audio track of the agent coming and going
NextDisconnect ==
    \/ StartClick
    \/ TokenResolved
    \/ TokenRejected
    \/ ConnectResolved
    \/ ConnectRejected
    \/ MicResolved
    \/ MicRejected
    \/ \E r \in 1..MaxRooms : ConnectionConnected(r)
    \/ \E r \in 1..MaxRooms : ConnectionDisconnected(r)
    \/ \E r \in 1..MaxRooms : TrackSubscribed(r)
    \/ \E r \in 1..MaxRooms : TrackUnsubscribed(r)
    \/ \E r \in 1..MaxRooms : ParticipantDisconnected(r, IdAgent)
    \/ Disconnect
    \/ \E i \in 1..(MaxPending + 1) : DisconnectResolved(i)

SpecDisconnect == Init /\ [][NextDisconnect]_vars

(***************************************************************************)
(* The completion guard and the completion callback.                       *)
(***************************************************************************)
\* C1: the transition into Completing is performed at most once in a
\* session, whatever the number and order of farewell timers firing and
\* agent departures, and the completion guard is a one-way latch: once set
\* it is never cleared, and the state becomes Completing only in a step that
\* sets it.
CompletingAtMostOnce ==
    /\ [](Len(completingLog) <= 1)
    /\ [][completingRef => completingRef']_vars
    /\ [][(ui.voiceState # "completing" /\ ui'.voiceState = "completing")
              => (~completingRef /\ completingRef')]_vars

\* the agent left while a farewell timer was pending, and the timer has
\* fired since, against the guard
DepartureThenFarewellFired ==
    /\ mounted
    /\ completingLog = <<"departure">>
    /\ armed >= 1
    /\ farewellTimers = {}
    /\ completingRef

\* C2: the completion callback is invoked exactly once, never more than
\* once, whichever of complete(), a timed-out farewell and an agent
\* departure happen and however they race.
CallbackAtMostOnce == Len(onCompleteCalls) <= 1

\* C3: complete() sets the completion guard (and so a second complete()
\* changes nothing): whenever a complete() has been called, the guard is set.
CompleteSetsGuard ==
    (CountKind(pending, "complete") > 0 \/ onCompleteCalls # <<>>)
        => completingRef

(***************************************************************************)
(* The farewell timer.                                                     *)
(***************************************************************************)
\* C4: at most one farewell timer is pending at any time.
OneFarewellTimer == Cardinality(farewellTimers) <= 1

\* a second farewell timer was armed while the first was pending, and it is
\* the only one pending
SecondTimerReplacedFirst ==
    /\ mounted
    /\ armed = 2
    /\ completingLog = <<>>
    /\ farewellTimers = {[id |-> 2, left |-> FAREWELL_DELAY]}

\* C5: after a farewell match that arrives while an earlier farewell timer is
\* pending, the earlier timer never fires: the only timer that may be pending
\* is the one armed last, and a farewell timer moves the session into
\* Completing only a full farewell delay after the last match, and only if
\* the session was never in Completing before.
FarewellDebounce ==
    /\ [](\A t \in farewellTimers : t.id = farewellTimerRef)
    /\ [][completingLog' = Append(completingLog, "farewell")
              => (sinceLastMatch = FAREWELL_DELAY /\ completingLog = <<>>)]_vars

\* two farewell timers were armed, the second while the first was pending,
\* and the session went into Completing once, by a farewell timer
DebouncedFarewellCompleted ==
    /\ mounted
    /\ armed = 2
    /\ completingLog = <<"farewell">>
    /\ farewellTimers = {}
    /\ ui.voiceState = "completing"

\* C6: when a participant leaves whose identity carries the agent marker and
\* the guard is not set, the guard is set and the state is Completing at
\* once; when the identity does not carry the marker, or the guard is set
\* already, neither the guard nor the state changes.  (The state is React
\* state: it is there while the component is mounted.)
AgentDeparture ==
    [][\A r \in 1..MaxRooms, identity \in {IdAgent, IdUser} :
           ParticipantDisconnected(r, identity)
               => IF Includes(identity, AgentMarker) /\ ~completingRef
                  THEN /\ completingRef'
                       /\ mounted => ui'.voiceState = "completing"
                  ELSE /\ completingRef' = completingRef
                       /\ ui'.voiceState = ui.voiceState]_vars

\* the agent left a session whose guard was not set: the session is in
\* Completing by that departure
CompletingByDeparture ==
    /\ mounted
    /\ completingLog = <<"departure">>
    /\ completingRef
    /\ ui.voiceState = "completing"
    /\ ui.interviewEnded

\* C7: no farewell timer fires once the session has been torn down
\* (disconnect() has run to its end, by complete(), by the completion after
\* the Completing delay or by the unmount).
NoFarewellAfterTeardown ==
    [][tornDown => \A id \in 1..MaxArms : ~FarewellTimerFire(id)]_vars

(***************************************************************************)
(* The transcript.                                                         *)
(***************************************************************************)
\* C8: the transcript is append-only: no step (a transcription segment, a
\* data message, a note, a connection change, a retry, a disconnect, the
\* completion) removes, reorders or rewrites an utterance committed before.
AppendOnly == [][IsPrefix(ui.transcript, ui'.transcript)]_vars

\* a transcript of two utterances of different speakers, kept across a
\* retry of start() and the completion
TranscriptKeptToCompletion ==
    /\ Len(ui.transcript) = 2
    /\ ui.transcript[1].role # ui.transcript[2].role
    /\ Len(rooms) = 2
    /\ onCompleteCalls # <<>>
    /\ tornDown

\* the utterances the segments of one event commit: the final segments whose
\* trimmed text is not empty, in the order received, under the speaker's role
RECURSIVE FinalNonEmpty(_, _)
FinalNonEmpty(segments, role) ==
    IF segments = <<>> THEN <<>>
    ELSE (IF Head(segments).final /\ Trim(Head(segments).text) # <<>>
          THEN <<[role |-> role, text |-> Head(segments).text]>>
          ELSE <<>>) \o FinalNonEmpty(Tail(segments), role)

\* C9: for transcription segments alone, the transcript is the subsequence
\* of the final segments whose trimmed text is not empty, in receipt order,
\* each once: every event appends exactly those of its segments.
TranscriptIsFinalSegments ==
    [][\A segments \in SegmentBatches, identity \in Identities :
           TranscriptionReceived(1, segments, identity)
               => ui'.transcript =
                      ui.transcript \o
                          FinalNonEmpty(segments,
                                        IF IsAgent(identity) THEN "agent"
                                        ELSE "user")]_vars

\* an utterance of the agent, then an answer of the user: the final segments
\* of two events, the answer with its text as received
AgentThenUserAnswer ==
    /\ Len(ui.transcript) = 2
    /\ ui.transcript[1] = Utterance("agent", TxtYes)
    /\ ui.transcript[2] = Utterance("user", TxtAnswer)

\* C10: answeredCount never decreases, and never exceeds totalExpected when
\* totalExpected is greater than zero.
AnsweredCountMonotoneCapped ==
    /\ [](totalQuestions > 0 => ui.answeredCount <= totalQuestions)
    /\ [][ui'.answeredCount >= ui.answeredCount]_vars

\* two answers of three words to a plan of one question: the second one hit
\* the cap
SecondAnswerCapped ==
    /\ totalQuestions = 1
    /\ ui.answeredCount = 1
    /\ Len(ui.transcript) = 2
    /\ \A i \in 1..2 : /\ ui.transcript[i].role = "user"
                       /\ SplitLength(Trim(ui.transcript[i].text)) >= MIN_WORDS

\* the whitespace-delimited tokens of a text: its maximal runs of characters
\* that are not spaces
Tokens(text) ==
    Cardinality({i \in 1..Len(text) :
                    ~IsSpace(text[i]) /\ (i = 1 \/ IsSpace(text[i - 1]))})

\* the segments of an event that count as answers
RECURSIVE Answers(_, _)
Answers(segments, identity) ==
    IF segments = <<>> THEN 0
    ELSE (IF /\ ~IsAgent(identity)
             /\ Head(segments).final
             /\ Tokens(Head(segments).text) >= 3
          THEN 1 ELSE 0) + Answers(Tail(segments), identity)

FailedStartTornDown ==
    (ui.voiceState = "error" /\ startPc = "none")
        => /\ roomRef = 0
           /\ \A r \in 1..Len(rooms) : rooms[r] # "connected"

Disconnected ==
    /\ roomRef = 0
    /\ audioElementRef = 0
    /\ ui.voiceState = "idle"
    /\ ~ui.isConnected

\* C14: disconnect() is idempotent: a disconnect() that has run to its end
\* leaves no room reference and no audio element reference, and the state
\* Idle; and a disconnect() called in the state it leaves changes nothing (it
\* disconnects no transport and removes no audio element a second time).
DisconnectIdempotent ==
    /\ [][((\E i \in 1..(MaxPending + 1) : DisconnectResolved(i))
              \/ (Disconnect /\ roomRef = 0)) => Disconnected']_vars
    /\ [](Disconnected
             => ~ENABLED (/\ Disconnect
                         /\ <<ui, rooms, pending, roomRef, audioElementRef,
                              audioElements>>'
                                # <<ui, rooms, pending, roomRef,
                                    audioElementRef, audioElements>>))

\* a disconnect() has run to its end on a session whose audio track was
\* subscribed: it has let go of the audio element and of the room
DisconnectedAfterAudio ==
    /\ tornDown
    /\ pending = <<>>
    /\ created = 1
    /\ Disconnected
    /\ audioElements = {}
    /\ rooms = <<"closed">>
    /\ startPc = "none"
\* no room of the component has an open connection
NoActiveConnection == \A r \in 1..Len(rooms) : rooms[r] # "connected"

\* the note
TxtNote == Trim(<<" ", "u", "r", "l", " ">>)

\* C15: sending a note is a no-op, leaving the transcript, the note input,
\* the state and the outbound messages unchanged, whenever the text is blank
\* or there is no active connection (before the transport has connected,
\* after a failed start, after the transport has reported Disconnected).
NoteNoOpWithoutConnection ==
    [][(HandleAddNote /\ (Trim(ui.noteText) = <<>> \/ NoActiveConnection))
           => /\ ui'.transcript = ui.transcript
              /\ ui'.noteText = ui.noteText
              /\ ui'.voiceState = ui.voiceState
              /\ UNCHANGED <<publishing, published>>]_vars

\* C16: an accepted note is appended, trimmed, exactly once as a user
\* utterance whether or not the publish succeeds; the outcome of the publish
\* changes neither the state, the guard, the transcript nor the error.
AcceptedNoteAppendedOnce ==
    /\ [][(HandleAddNote /\ Trim(ui.noteText) # <<>> /\ roomRef # 0)
              => ui'.transcript =
                     Append(ui.transcript,
                            Utterance("user", Trim(ui.noteText)))]_vars
    /\ [][(\E k \in 1..MaxPublishing :
               PublishResolved(k) \/ PublishRejected(k))
              => /\ ui'.transcript = ui.transcript
                 /\ ui'.voiceState = ui.voiceState
                 /\ ui'.error = ui.error
                 /\ UNCHANGED <<completingRef, completingLog,
                                onCompleteCalls>>]_vars

\* C16 witness: the publish of a note failed over a connected room; the note
\* is in the transcript once and the session listens on
NoteKeptAfterFailedPublish ==
    /\ ui.transcript = <<Utterance("user", TxtNote)>>
    /\ publishing = <<>>
    /\ published = 0
    /\ dataIgnored = FALSE
    /\ ui.noteText = <<>>
    /\ ui.voiceState = "listening"
    /\ rooms = <<"connected">>

\* C17: a data message that is not JSON, or is JSON of an unrecognised shape
\* (no type "transcript"; a transcript message of a role other than the
\* agent, with is_final false, or with empty text), leaves the state, the
\* guard, the transcript, answeredCount and the farewell timer unchanged, and
\* never moves the session to the error state.
UnrecognisedDataIgnored ==
    [][\A data \in DataPayloads :
           (Unrecognised(data) /\ DataReceived(1, data))
               => /\ ui' = ui
                  /\ UNCHANGED <<completingRef, farewellTimerRef,
                                 farewellTimers, armed>>]_vars

\* C17 witness: a message was dropped while the farewell timer was pending
\* over a transcript of one utterance
DroppedWhileTimerPending ==
    /\ dataIgnored
    /\ farewellTimerRef # 0
    /\ farewellTimers # {}
    /\ Len(ui.transcript) = 1
    /\ ~completingRef
    /\ ui.voiceState = "listening"

\* the one utterance of the quiet session
FarewellOnly == <<Utterance("agent", TxtGoodLuck)>>

\* the session is over: torn down, with one callback made
Terminated ==
    /\ tornDown
    /\ roomRef = 0
    /\ rooms = <<"closed">>
    /\ pending = <<>>
    /\ ui.voiceState = "idle"
    /\ Len(onCompleteCalls) = 1

\* C18: one farewell of the agent, final, in a connected session with the
\* guard unset and nothing after it: the farewell timer is scheduled; after
\* the farewell delay the state becomes completing; after the second delay
\* the session is terminated; the callback fires exactly once, with a
\* transcript of exactly that utterance.
QuietFarewellCompletes ==
    /\ [][QuietFarewell
              => /\ farewellTimers' = {[id |-> 1, left |-> FAREWELL_DELAY]}
                 /\ farewellTimerRef' = 1]_vars
    /\ []((\E t \in farewellTimers : t.left > 0)
              => ~completingRef /\ ui.voiceState # "completing")
    /\ (armed = 1 /\ farewellTimers # {}) ~> (ui.voiceState = "completing")
    /\ [](completeTimer > 0 => pending = <<>> /\ ~tornDown)
    /\ (armed = 1 /\ completingRef) ~> Terminated
    /\ [](/\ Len(onCompleteCalls) <= 1
          /\ \A k \in 1..Len(onCompleteCalls) :
                 CallArgs(onCompleteCalls[k]) =
                     [interviewTranscript |-> {},
                      additionalNotes |-> {},
                      transcript |-> FarewellOnly])

\* C18 witness: the quiet session ended by its farewell, the one callback
\* made with the one utterance
QuietSessionTerminated ==
    /\ Terminated
    /\ completingLog = <<"farewell">>
    /\ ~mounted
    /\ CallArgs(onCompleteCalls[1]).transcript = FarewellOnly

\* the answer summary of a transcript: the user utterances joined in order,
\* or no field when there is none
Summary(transcript) ==
    IF UserMessages(transcript) = <<>> THEN {}
    ELSE {Join(UserMessages(transcript))}

\* C19: the callback receives the full transcript as committed at the
\* moment it is invoked, an utterance committed while the teardown inside
\* complete() was in progress included, and its answer summary is the
\* concatenation, in order, of exactly the user utterances of that
\* transcript, absent when there is none.
CallbackGetsCommittedTranscript ==
    [][onCompleteCalls' # onCompleteCalls
           => LET args == CallArgs(onCompleteCalls'[Len(onCompleteCalls')])
              IN  /\ args.transcript = ui.transcript
                  /\ args.interviewTranscript = Summary(ui.transcript)]_vars

\* the resources of the session are released
Released ==
    /\ \A r \in 1..Len(rooms) : rooms[r] # "connected"
    /\ audioElements = {}

\* C20: on every exit path (disconnect(), an error of start(), completion,
\* the caller's unmount) the resources of the session are released:
\* afterwards no transport connection is open and no audio element the
\* session created remains attached.
ResourcesReleased ==
    /\ [][(\E i \in 1..(MaxPending + 1) : DisconnectResolved(i))
              => Released']_vars
    /\ []((ui.voiceState = "error" /\ startPc = "none") => Released)
    /\ []((~mounted /\ pending = <<>> /\ startPc = "none") => Released)

(***************************************************************************)
(* The state machine of the session.                                       *)
(***************************************************************************)
\* C21: when the departure of the agent is handled with the guard unset
\* while a farewell timer is pending, that timer is cancelled: right after
\* the handler no farewell timer is pending.
DepartureCancelsFarewellTimer ==
    [][(/\ ParticipantDisconnected(1, IdAgent)
        /\ ~completingRef
        /\ farewellTimers # {})
           => farewellTimers' = {}]_vars

\* C22: once the guard is set and the state is completing, no transport
\* event changes the state: Disconnected is a no-op on it, and the audio
\* track events do not move the session out of completing.
CompletingKeptByTransportEvents ==
    [][(/\ completingRef
        /\ ui.voiceState = "completing"
        /\ \E r \in 1..MaxRooms :
               \/ ConnectionDisconnected(r)
               \/ TrackSubscribed(r)
               \/ TrackUnsubscribed(r))
           => ui'.voiceState = "completing"]_vars

\* C23: the state completing is entered only from listening, speaking or
\* thinking: a farewell timer that fires, or a departure of the agent that
\* is handled, while the session is idle, connecting or in error does not
\* move it to completing.
CompletingOnlyFromConversation ==
    [][(ui'.voiceState = "completing" /\ ui.voiceState # "completing")
           => ui.voiceState \in {"listening", "speaking", "thinking"}]_vars

\* C24: disconnect() returns the state to idle only if the session is not
\* completing already: a disconnect() that runs with the guard set, the one
\* of the completion included, does not reset the state to idle.
DisconnectKeepsCompleting ==
    [][(/\ completingRef
        /\ ui.voiceState = "completing"
        /\ \/ \E i \in 1..(MaxPending + 1) : DisconnectResolved(i)
           \/ AutoCompleteFire
           \/ EndClick)
           => ui'.voiceState = "completing"]_vars

\* C25: every final, non-empty utterance of the agent that is committed to
\* the transcript while the guard is unset and whose lower-cased text
\* contains a farewell fragment arms (or re-arms) the farewell timer, by
\* whichever way it reached the session: a transcription segment or a
\* transcript message of the data channel.
FarewellArmsTimerByAnyRoute ==
    [][(/\ ~completingRef
        /\ Len(ui'.transcript) > Len(ui.transcript)
        /\ \E k \in (Len(ui.transcript) + 1)..Len(ui'.transcript) :
               /\ ui'.transcript[k].role = "agent"
               /\ IsFarewell(ui'.transcript[k].text))
           => /\ armed' > armed
              /\ farewellTimerRef' = armed'
              /\ [id |-> armed', left |-> FAREWELL_DELAY]
                     \in farewellTimers']_vars

\* C26: once the session is completing, the callback is delivered the fixed
\* delay later even if transcription segments, transcript messages or note
\* edits keep arriving: such events neither restart nor postpone the delay,
\* so the time left on it never grows while it is pending.
CompletingDelayNotRestarted ==
    [][(completeTimer # NoTimer /\ completeTimer' # NoTimer)
           => completeTimer' <= completeTimer]_vars

\* C27: in any state that is not terminal, an agent-state message carrying
\* listening, thinking or speaking moves the session to that state (so the
\* state thinking is reachable).
AgentStateMessageSetsState ==
    [][\A state \in AgentStates :
           (mounted /\ DataReceived(1, StateMessage(state)))
               => ui'.voiceState = state]_vars

\* the rooms with an open connection
LiveRooms == {r \in 1..Len(rooms) : rooms[r] = "connected"}

\* C28: at most one room is live at any time; after a retry of start() no
\* room of an earlier attempt is connected, so no event of an abandoned room
\* changes the state, the transcript or the guard.
OneLiveRoom ==
    /\ [](Cardinality(LiveRooms) <= 1)
    /\ [][\A r \in 1..MaxRooms :
              (/\ r # roomRef
               /\ \/ ParticipantDisconnected(r, IdAgent)
                  \/ TrackSubscribed(r)
                  \/ TrackUnsubscribed(r)
                  \/ \E segments \in SegmentBatches :
                         TranscriptionReceived(r, segments, IdAgent))
                  => UNCHANGED <<ui, completingRef>>]_vars

\* C29: the continuation of start() does not overwrite the state a transport
\* event produced while start() was suspended: speaking (an audio track was
\* subscribed) or completing (the agent left) is still the state after
\* start() has returned.
StartKeepsEventState ==
    [][(MicResolved /\ ui.voiceState \in {"speaking", "completing"})
           => ui'.voiceState = ui.voiceState]_vars

\* C30: in every reachable state the guard and the interview-ended flag are
\* equal, and the state completing implies that the guard is set.
GuardEqualsInterviewEnded ==
    /\ completingRef <=> ui.interviewEnded
    /\ ui.voiceState = "completing" => completingRef

====
